---------------------------- MODULE Spec2Model ----------------------------
(***************************************************************************)
(* The Vue client of the CSV search application (the session-aware script  *)
(* and the older script without sessions), together with the part of the   *)
(* backend the client talks to.  Strings the program transforms (file      *)
(* names, index names, session tokens, index identifiers, queries) are     *)
(* sequences of one-character strings; strings it only displays (alert     *)
(* messages, column names) are plain strings.                              *)
(***************************************************************************)
EXTENDS Integers, Sequences, FiniteSets, Bags, TLC

VARIABLES
    script,          \* which client script the page runs: "session" | "legacy"
    storage,         \* sessionStorage['userSessionId']
    sessionId,       \* data(): sessionId
    selectedFile,    \* data(): selectedFile
    indexName,       \* data(): indexName
    indices,         \* data(): indices
    selectedIndex,   \* data(): selectedIndex
    searchQuery,     \* data(): searchQuery
    searchSize,      \* data(): searchSize
    searchResults,   \* data(): searchResults
    searchMetrics,   \* data(): searchMetrics
    lastSearchQuery, \* data(): lastSearchQuery
    searchHistory,   \* data(): searchHistory
    uploading,       \* data(): uploading
    searching,       \* data(): searching
    alert,           \* data(): alert {message, type}
    timers,          \* pending setTimeout callbacks of showAlert
    uploads,         \* POST /api/upload-csv requests in flight (bag)
    lists,           \* GET /api/indices requests in flight (bag)
    searches,        \* POST /api/search requests in flight (bag)
    engine,          \* indices held by the search engine
    clock,           \* wall clock read by new Date()
    page             \* "closed" before the app is mounted, then "open"

vars == <<script, storage, sessionId, selectedFile, indexName, indices,
          selectedIndex, searchQuery, searchSize, searchResults, searchMetrics,
          lastSearchQuery, searchHistory, uploading, searching, alert, timers,
          uploads, lists, searches, engine, clock, page>>

(***************************************************************************)
(* Bounds of the model.                                                    *)
(***************************************************************************)
\* requests (of all kinds) in flight at once
MaxInFlight == 2
\* alert timers pending at once
MaxTimers == 2
\* successful searches per page in Spec
MaxDone == 1
\* successful searches per page in SpecHistory
MaxDoneHistory == 12

(***************************************************************************)
(* Characters and strings.                                                 *)
(***************************************************************************)
Rep(c, n) == [i \in 1..n |-> c]

UpperCase ==
    <<"A","B","C","D","E","F","G","H","I","J","K","L","M",
      "N","O","P","Q","R","S","T","U","V","W","X","Y","Z">>

LowerCase ==
    <<"a","b","c","d","e","f","g","h","i","j","k","l","m",
      "n","o","p","q","r","s","t","u","v","w","x","y","z">>

Digits == {"0","1","2","3","4","5","6","7","8","9"}

\* the character class [a-z0-9_-]
NameChars == {LowerCase[i] : i \in 1..26} \cup Digits \cup {"_", "-"}

\* the character class [0-9a-fA-F]
HexChars == Digits \cup {LowerCase[i] : i \in 1..6} \cup {UpperCase[i] : i \in 1..6}

\* String.prototype.toLowerCase
toLowerCase(s) ==
    [i \in 1..Len(s) |->
        IF \E k \in 1..26 : UpperCase[k] = s[i]
        THEN LowerCase[CHOOSE k \in 1..26 : UpperCase[k] = s[i]]
        ELSE s[i]]

\* String.prototype.replace(pattern, '') with a string pattern: the first
\* occurrence only
replaceFirst(s, pat) ==
    LET n == Len(pat)
        at == {i \in 1..(Len(s) - n + 1) : SubSeq(s, i, i + n - 1) = pat}
    IN  IF at = {} THEN s
        ELSE LET i == CHOOSE j \in at : \A k \in at : j <= k
             IN  SubSeq(s, 1, i - 1) \o SubSeq(s, i + n, Len(s))

\* String.prototype.replace(/[^a-z0-9_-]/g, '_')
replaceDisallowed(s) ==
    [i \in 1..Len(s) |-> IF s[i] \in NameChars THEN s[i] ELSE "_"]

\* String.prototype.trim
RECURSIVE trimLeft(_)
trimLeft(s) == IF s # <<>> /\ Head(s) = " " THEN trimLeft(Tail(s)) ELSE s

RECURSIVE trimRight(_)
trimRight(s) ==
    IF s # <<>> /\ s[Len(s)] = " " THEN trimRight(SubSeq(s, 1, Len(s) - 1)) ELSE s

\* a plausible bug: the query is tested without trim()
trim_none(s) == s

trim(s) == trimRight(trimLeft(s))

\* a plausible bug: the disallowed characters are not replaced
deriveIndexName_skipReplace(fileName) ==
    toLowerCase(replaceFirst(fileName, <<".","c","s","v">>))

\* the index name handleFileSelect derives from a file name
deriveIndexName(fileName) ==
    replaceDisallowed(toLowerCase(replaceFirst(fileName, <<".","c","s","v">>)))


(***************************************************************************)
(* Session tokens.                                                         *)
(***************************************************************************)
\* sessionStorage.getItem gives null when nothing is stored; null and '' are
\* both falsy in the tests the code makes
NoToken == <<>>

uuidTemplate ==
    Rep("x", 8) \o <<"-">> \o Rep("x", 4) \o <<"-", "4">> \o Rep("x", 3)
    \o <<"-", "y">> \o Rep("x", 3) \o <<"-">> \o Rep("x", 12)

\* the random digits drawn while a token is generated: x for the 'x' places,
\* y for the 'y' place
RandomDraws == {[x |-> "a", y |-> "8"], [x |-> "3", y |-> "b"]}

\* a plausible bug: the fallback keeps only the digits before / after the
\* first hyphen, so tokens have no fixed shape
generateUUID_unshaped == {<<"a">>, <<"a", "-", "3">>}

\* the tokens generateUUID can return
generateUUID ==
    {[i \in 1..Len(uuidTemplate) |->
        IF uuidTemplate[i] = "x" THEN d.x
        ELSE IF uuidTemplate[i] = "y" THEN d.y
        ELSE uuidTemplate[i]] : d \in RandomDraws}

\* a plausible bug: a fresh token at every page load
initializeSession_always ==
    \E t \in generateUUID : storage' = t /\ sessionId' = t

initializeSession ==
    IF storage = NoToken
    THEN \E t \in generateUUID : storage' = t /\ sessionId' = t
    ELSE storage' = storage /\ sessionId' = storage

(***************************************************************************)
(* Index identifiers.                                                      *)
(***************************************************************************)
tempPrefix == <<"t", "e", "m", "p", "-">>

\* /^temp-[0-9a-fA-F]{8}-[0-9a-fA-F]{4}-[0-9a-fA-F]{4}-[0-9a-fA-F]{4}-[0-9a-fA-F]{12}-/
\* as the set of characters allowed at each place
prefixPattern ==
    [i \in 1..Len(tempPrefix) |-> {tempPrefix[i]}]
    \o Rep(HexChars, 8) \o <<{"-"}>> \o Rep(HexChars, 4) \o <<{"-"}>>
    \o Rep(HexChars, 4) \o <<{"-"}>> \o Rep(HexChars, 4) \o <<{"-"}>>
    \o Rep(HexChars, 12) \o <<{"-"}>>

matchesPattern(s, pattern) ==
    /\ Len(s) >= Len(pattern)
    /\ \A i \in 1..Len(pattern) : s[i] \in pattern[i]

\* a plausible bug: the trailing hyphen of the prefix is left in place
displayName_keepHyphen(identifier) ==
    IF matchesPattern(identifier, prefixPattern)
    THEN SubSeq(identifier, Len(prefixPattern), Len(identifier))
    ELSE identifier

\* index.name.replace(<the pattern>, '')
displayName(identifier) ==
    IF matchesPattern(identifier, prefixPattern)
    THEN SubSeq(identifier, Len(prefixPattern) + 1, Len(identifier))
    ELSE identifier

(***************************************************************************)
(* The backend, as the specification describes it (its code is not part of *)
(* the client sources): IndexNameResolver, IndexCatalog, QueryComposer,    *)
(* SearchExecutor.                                                         *)
(***************************************************************************)
\* the configured maximum result size
MaxResultSize == 100

\* a plausible bug: the identifier leaves the session token out
resolve_noSession(token, rawName) ==
    tempPrefix \o <<"-">> \o replaceDisallowed(toLowerCase(rawName))

\* resolve(session_token, raw_name): temp-<session_token>-<normalized name>
resolve(token, rawName) ==
    tempPrefix \o token \o <<"-">> \o replaceDisallowed(toLowerCase(rawName))

\* resolve fails with InvalidNameError when normalization yields nothing; a
\* call without a session token cannot be resolved at all
resolvable(token, rawName) ==
    token # NoToken /\ replaceDisallowed(toLowerCase(rawName)) # <<>>

hasPrefix(s, prefix) ==
    Len(s) >= Len(prefix) /\ SubSeq(s, 1, Len(prefix)) = prefix

\* a plausible bug: the catalog is not filtered by session
catalog_unfiltered(token) ==
    {[name |-> e.id, columns |-> e.columns] : e \in engine}

\* list(session_token): the indices whose identifier starts with the
\* session's own prefix
catalog(token) ==
    {[name |-> e.id, columns |-> e.columns] :
        e \in {x \in engine : hasPrefix(x.id, tempPrefix \o token \o <<"-">>)}}

\* a plausible bug: the requested size is passed through
clampSize_none(size) == size

\* result_size is clamped to the configured maximum
clampSize(size) == IF size > MaxResultSize THEN MaxResultSize ELSE size

\* the engine after ingesting an upload into identifier id: the index is
\* created with the schema inferred from the file if absent, and kept otherwise
ingest(id, token, columns) ==
    IF \E e \in engine : e.id = id
    THEN {IF e.id = id THEN [e EXCEPT !.writers = @ \cup {token}] ELSE e : e \in engine}
    ELSE engine \cup {[id |-> id, writers |-> {token}, columns |-> columns]}

\* the response of a search the engine executes: the values the engine
\* computed for that query and (clamped) size
execute(request) ==
    LET run == [query |-> request.query, size |-> clampSize(request.size)]
    IN  [results |-> <<run>>, total_results |-> run, search_time_seconds |-> run]

\* a search can be executed when its index exists and its query is not empty
executable(request) ==
    /\ request.session_id # NoToken
    /\ \E e \in engine : e.id = request.index_name
    /\ request.query # <<>>

(***************************************************************************)
(* Inputs.                                                                 *)
(***************************************************************************)
NoFile == [name |-> <<>>, type |-> "", columns |-> <<>>]

\* the files the user can pick; columns is the schema the backend infers
Files ==
    { [name |-> <<"M","y"," ","F","i","l","e","!",".","c","s","v">>,
       type |-> "text/csv",
       columns |-> << [name |-> "city", type |-> "text"],
                      [name |-> "price", type |-> "numeric"],
                      [name |-> "title", type |-> "text"] >>],
      [name |-> <<".","c","s","v">>,
       type |-> "text/csv",
       columns |-> << [name |-> "id", type |-> "numeric"] >>],
      [name |-> <<"x",".","C","S","V">>,
       type |-> "text/csv",
       columns |-> << [name |-> "when", type |-> "date"],
                      [name |-> "ok", type |-> "boolean"] >>],
      [name |-> <<"n",".","t","x","t">>,
       type |-> "text/plain",
       columns |-> << [name |-> "line", type |-> "text"] >>] }

FileNamed(name) == CHOOSE f \in Files : f.name = name

FirstFile == FileNamed(<<"M","y"," ","F","i","l","e","!",".","c","s","v">>)

SecondFile == FileNamed(<<"x",".","C","S","V">>)

\* the files the user can pick in SpecSession
SessionFiles == Files \ {SecondFile}

\* the texts the user can type into the query box
Queries == {<<>>, <<" ">>, <<"a">>}

\* the texts the user can type in SpecHistory
QueriesHistory == {<<>>, <<"a">>}

\* the sizes the user can choose
Sizes == {10, 10000}

\* the error details a failed response can carry; "" when it carries none
Details == {"", "detail"}

(***************************************************************************)
(* The application state.                                                  *)
(***************************************************************************)
\* searchMetrics before any search (null in the code)
NoRun == [query |-> <<>>, size |-> 0]

NoMetrics == [results |-> <<>>, total_results |-> NoRun, search_time_seconds |-> NoRun]

\* a plausible bug: another default size
data_size20 ==
    [selectedFile |-> NoFile, indexName |-> <<>>, indices |-> <<>>,
     selectedIndex |-> <<>>, searchQuery |-> <<>>, searchSize |-> 20,
     searchResults |-> <<>>, searchMetrics |-> NoMetrics,
     lastSearchQuery |-> <<>>, searchHistory |-> <<>>, sessionId |-> NoToken,
     uploading |-> FALSE, searching |-> FALSE,
     alert |-> [message |-> "", type |-> "success"]]

data ==
    [selectedFile |-> NoFile, indexName |-> <<>>, indices |-> <<>>,
     selectedIndex |-> <<>>, searchQuery |-> <<>>, searchSize |-> 10,
     searchResults |-> <<>>, searchMetrics |-> NoMetrics,
     lastSearchQuery |-> <<>>, searchHistory |-> <<>>, sessionId |-> NoToken,
     uploading |-> FALSE, searching |-> FALSE,
     alert |-> [message |-> "", type |-> "success"]]

Scripts == {"session", "legacy"}

Init ==
    /\ script \in Scripts
    /\ page = "closed"
    /\ storage = NoToken
    /\ sessionId = data.sessionId
    /\ selectedFile = data.selectedFile
    /\ indexName = data.indexName
    /\ indices = data.indices
    /\ selectedIndex = data.selectedIndex
    /\ searchQuery = data.searchQuery
    /\ searchSize = data.searchSize
    /\ searchResults = data.searchResults
    /\ searchMetrics = data.searchMetrics
    /\ lastSearchQuery = data.lastSearchQuery
    /\ searchHistory = data.searchHistory
    /\ uploading = data.uploading
    /\ searching = data.searching
    /\ alert = data.alert
    /\ timers = 0
    /\ uploads = EmptyBag
    /\ lists = EmptyBag
    /\ searches = EmptyBag
    /\ engine = {}
    /\ clock = 0

InFlight == BagCardinality(uploads) + BagCardinality(lists) + BagCardinality(searches)

Send(bag, request) == bag (+) SetToBag({request})

Settle(bag, request) == bag (-) SetToBag({request})

(***************************************************************************)
(* Alerts.                                                                 *)
(***************************************************************************)
\* showAlert(message, type): the message is shown and a timer is started
showAlert(message, type) ==
    /\ timers < MaxTimers
    /\ alert' = [message |-> message, type |-> type]
    /\ timers' = timers + 1

\* the callback of a timer started by showAlert
alertTimeout ==
    /\ page = "open"
    /\ timers > 0
    /\ alert' = [alert EXCEPT !.message = ""]
    /\ timers' = timers - 1
    /\ UNCHANGED <<script, storage, sessionId, selectedFile, indexName, indices,
                   selectedIndex, searchQuery, searchSize, searchResults,
                   searchMetrics, lastSearchQuery, searchHistory, uploading,
                   searching, uploads, lists, searches, engine, clock, page>>

(***************************************************************************)
(* The session-aware client.                                               *)
(***************************************************************************)
\* the synchronous part of loadIndices, called by caller: without a session
\* nothing is sent
loadIndicesSend(token, caller, pending) ==
    IF token = NoToken
    THEN pending
    ELSE Send(pending, [session_id |-> token, caller |-> caller])

\* a page load: data(), then mounted(): initializeSession and loadIndices.
\* The requests and timers of the page that was open before are gone with it.
mounted ==
    /\ script = "session"
    /\ page' = "open"
    /\ initializeSession
    /\ selectedFile' = data.selectedFile
    /\ indexName' = data.indexName
    /\ indices' = data.indices
    /\ selectedIndex' = data.selectedIndex
    /\ searchQuery' = data.searchQuery
    /\ searchSize' = data.searchSize
    /\ searchResults' = data.searchResults
    /\ searchMetrics' = data.searchMetrics
    /\ lastSearchQuery' = data.lastSearchQuery
    /\ searchHistory' = data.searchHistory
    /\ uploading' = data.uploading
    /\ searching' = data.searching
    /\ alert' = data.alert
    /\ timers' = 0
    /\ clock' = 0
    /\ uploads' = EmptyBag
    /\ searches' = EmptyBag
    /\ lists' = loadIndicesSend(sessionId', "mounted", EmptyBag)
    /\ UNCHANGED <<script, engine>>

\* the user clears the browser's session storage (or its lifetime ends)
clearStorage ==
    /\ storage # NoToken
    /\ storage' = NoToken
    /\ UNCHANGED <<script, sessionId, selectedFile, indexName, indices,
                   selectedIndex, searchQuery, searchSize, searchResults,
                   searchMetrics, lastSearchQuery, searchHistory, uploading,
                   searching, alert, timers, uploads, lists, searches, engine,
                   clock, page>>

\* handleFileSelect(event), file being event.target.files[0] (NoFile: none)
handleFileSelect(file) ==
    /\ page = "open"
    /\ IF file # NoFile /\ file.type = "text/csv"
       THEN /\ selectedFile' = file
            /\ indexName' = deriveIndexName(file.name)
            /\ showAlert("Archivo CSV seleccionado correctamente", "success")
       ELSE /\ showAlert("Por favor selecciona un archivo CSV valido", "error")
            /\ UNCHANGED <<selectedFile, indexName>>
    /\ UNCHANGED <<script, storage, sessionId, indices, selectedIndex,
                   searchQuery, searchSize, searchResults, searchMetrics,
                   lastSearchQuery, searchHistory, uploading, searching,
                   uploads, lists, searches, engine, clock, page>>

\* uploadCSV up to its first await
uploadCSV ==
    /\ page = "open"
    /\ script = "session"
    /\ IF sessionId = NoToken
       THEN /\ showAlert("Error: No se pudo iniciar la sesion. Intenta recargar la pagina.", "error")
            /\ UNCHANGED <<uploading, uploads>>
       ELSE IF selectedFile = NoFile \/ indexName = <<>>
       THEN /\ showAlert("Selecciona un archivo y especifica un nombre de indice", "error")
            /\ UNCHANGED <<uploading, uploads>>
       ELSE /\ InFlight < MaxInFlight
            /\ uploading' = TRUE
            /\ uploads' = Send(uploads, [file |-> selectedFile,
                                         index_name |-> indexName,
                                         session_id |-> sessionId])
            /\ UNCHANGED <<alert, timers>>
    /\ UNCHANGED <<script, storage, sessionId, selectedFile, indexName, indices,
                   selectedIndex, searchQuery, searchSize, searchResults,
                   searchMetrics, lastSearchQuery, searchHistory, searching,
                   lists, searches, engine, clock, page>>

\* the upload succeeds: the backend ingests the file; uploadCSV goes on after
\* axios.post up to the await inside loadIndices
uploadCSV_ok(request) ==
    /\ page = "open"
    /\ BagIn(request, uploads)
    /\ resolvable(request.session_id, request.index_name)
    /\ engine' = ingest(resolve(request.session_id, request.index_name),
                        request.session_id, request.file.columns)
    /\ showAlert("CSV cargado exitosamente", "success")
    /\ selectedFile' = NoFile
    /\ indexName' = <<>>
    /\ uploads' = Settle(uploads, request)
    /\ lists' = loadIndicesSend(sessionId, "uploadCSV", lists)
    /\ uploading' = IF sessionId = NoToken THEN FALSE ELSE uploading
    /\ UNCHANGED <<script, storage, sessionId, indices, selectedIndex,
                   searchQuery, searchSize, searchResults, searchMetrics,
                   lastSearchQuery, searchHistory, searching, searches, clock,
                   page>>

\* a plausible bug: the flag is reset in the try block only, not in a finally
uploadCSV_failed_noFinally(request, detail) ==
    /\ page = "open"
    /\ BagIn(request, uploads)
    /\ showAlert(IF detail # "" THEN detail ELSE "Error cargando el archivo CSV", "error")
    /\ uploads' = Settle(uploads, request)
    /\ UNCHANGED <<script, storage, sessionId, selectedFile, indexName, indices,
                   selectedIndex, searchQuery, searchSize, searchResults,
                   searchMetrics, lastSearchQuery, searchHistory, uploading,
                   searching, lists, searches, engine, clock, page>>

\* the upload fails (no response, or a response with or without a detail):
\* catch and finally of uploadCSV
uploadCSV_failed(request, detail) ==
    /\ page = "open"
    /\ BagIn(request, uploads)
    /\ showAlert(IF detail # "" THEN detail ELSE "Error cargando el archivo CSV", "error")
    /\ uploading' = FALSE
    /\ uploads' = Settle(uploads, request)
    /\ UNCHANGED <<script, storage, sessionId, selectedFile, indexName, indices,
                   selectedIndex, searchQuery, searchSize, searchResults,
                   searchMetrics, lastSearchQuery, searchHistory, searching,
                   lists, searches, engine, clock, page>>

\* the orders in which the backend can list a set of catalog entries
Orders(S) ==
    {o \in [1..Cardinality(S) -> S] : \A i, j \in 1..Cardinality(S) : o[i] = o[j] => i = j}

\* the listings the backend can answer a request with: none for a request
\* without a session token
listings(request) ==
    IF request.session_id = NoToken THEN {} ELSE Orders(catalog(request.session_id))

\* a plausible bug: the display name is selected instead of the full name
loadIndices_ok_selectsName(request, listing) ==
    /\ page = "open"
    /\ BagIn(request, lists)
    /\ indices' = [i \in 1..Len(listing) |->
                     [full_name |-> listing[i].name,
                      name |-> displayName(listing[i].name),
                      columns |-> listing[i].columns]]
    /\ selectedIndex' = IF Len(indices') > 0 /\ selectedIndex = <<>>
                        THEN indices'[1].name
                        ELSE selectedIndex
    /\ uploading' = IF request.caller = "uploadCSV" THEN FALSE ELSE uploading
    /\ lists' = Settle(lists, request)
    /\ UNCHANGED <<script, storage, sessionId, selectedFile, indexName,
                   searchQuery, searchSize, searchResults, searchMetrics,
                   lastSearchQuery, searchHistory, searching, alert, timers,
                   uploads, searches, engine, clock, page>>

\* a plausible bug: an empty listing is reported as an error
loadIndices_ok_emptyIsError(request, listing) ==
    /\ page = "open"
    /\ BagIn(request, lists)
    /\ indices' = [i \in 1..Len(listing) |->
                     [full_name |-> listing[i].name,
                      name |-> displayName(listing[i].name),
                      columns |-> listing[i].columns]]
    /\ selectedIndex' = IF Len(indices') > 0 /\ selectedIndex = <<>>
                        THEN indices'[1].full_name
                        ELSE selectedIndex
    /\ IF listing = <<>>
       THEN showAlert("Error cargando la lista de indices", "error")
       ELSE UNCHANGED <<alert, timers>>
    /\ uploading' = IF request.caller = "uploadCSV" THEN FALSE ELSE uploading
    /\ lists' = Settle(lists, request)
    /\ UNCHANGED <<script, storage, sessionId, selectedFile, indexName,
                   searchQuery, searchSize, searchResults, searchMetrics,
                   lastSearchQuery, searchHistory, searching,
                   uploads, searches, engine, clock, page>>

\* the listing succeeds with response.data.indices = listing: loadIndices
\* after axios.get; a call made by uploadCSV then returns into its finally
loadIndices_ok(request, listing) ==
    /\ page = "open"
    /\ BagIn(request, lists)
    /\ indices' = [i \in 1..Len(listing) |->
                     [full_name |-> listing[i].name,
                      name |-> displayName(listing[i].name),
                      columns |-> listing[i].columns]]
    /\ selectedIndex' = IF Len(indices') > 0 /\ selectedIndex = <<>>
                        THEN indices'[1].full_name
                        ELSE selectedIndex
    /\ uploading' = IF request.caller = "uploadCSV" THEN FALSE ELSE uploading
    /\ lists' = Settle(lists, request)
    /\ UNCHANGED <<script, storage, sessionId, selectedFile, indexName,
                   searchQuery, searchSize, searchResults, searchMetrics,
                   lastSearchQuery, searchHistory, searching, alert, timers,
                   uploads, searches, engine, clock, page>>

\* a plausible bug: the catch of loadIndices only logs the error
loadIndices_failed_silent(request) ==
    /\ page = "open"
    /\ BagIn(request, lists)
    /\ uploading' = IF request.caller = "uploadCSV" THEN FALSE ELSE uploading
    /\ lists' = Settle(lists, request)
    /\ UNCHANGED <<script, storage, sessionId, selectedFile, indexName, indices,
                   selectedIndex, searchQuery, searchSize, searchResults,
                   searchMetrics, lastSearchQuery, searchHistory, searching,
                   alert, timers, uploads, searches, engine, clock, page>>

\* the listing fails: catch of loadIndices
loadIndices_failed(request) ==
    /\ page = "open"
    /\ BagIn(request, lists)
    /\ showAlert("Error cargando la lista de indices", "error")
    /\ uploading' = IF request.caller = "uploadCSV" THEN FALSE ELSE uploading
    /\ lists' = Settle(lists, request)
    /\ UNCHANGED <<script, storage, sessionId, selectedFile, indexName, indices,
                   selectedIndex, searchQuery, searchSize, searchResults,
                   searchMetrics, lastSearchQuery, searchHistory, searching,
                   uploads, searches, engine, clock, page>>

\* selectIndex(index), index being an entry of the list shown
selectIndex(index) ==
    /\ page = "open"
    /\ script = "session"
    /\ selectedIndex' = index.full_name
    /\ UNCHANGED <<script, storage, sessionId, selectedFile, indexName, indices,
                   searchQuery, searchSize, searchResults, searchMetrics,
                   lastSearchQuery, searchHistory, uploading, searching, alert,
                   timers, uploads, lists, searches, engine, clock, page>>

\* the user types into the query box (v-model of searchQuery)
setSearchQuery(text) ==
    /\ page = "open"
    /\ searchQuery # text
    /\ searchQuery' = text
    /\ UNCHANGED <<script, storage, sessionId, selectedFile, indexName, indices,
                   selectedIndex, searchSize, searchResults, searchMetrics,
                   lastSearchQuery, searchHistory, uploading, searching, alert,
                   timers, uploads, lists, searches, engine, clock, page>>

\* the user chooses a result size (v-model of searchSize)
setSearchSize(size) ==
    /\ page = "open"
    /\ searchSize # size
    /\ searchSize' = size
    /\ UNCHANGED <<script, storage, sessionId, selectedFile, indexName, indices,
                   selectedIndex, searchQuery, searchResults, searchMetrics,
                   lastSearchQuery, searchHistory, uploading, searching, alert,
                   timers, uploads, lists, searches, engine, clock, page>>

\* the number of entries searchHistory keeps
HistoryCap == 10

IsText(column) == column.type = "text"

ColumnNames(columns) == [i \in 1..Len(columns) |-> columns[i].name]

\* a plausible bug: the columns are not filtered by type
textColumns_all(list, selected) ==
    LET found == {i \in 1..Len(list) : list[i].full_name = selected}
    IN  IF found = {} THEN <<>>
        ELSE ColumnNames(list[CHOOSE i \in found : \A j \in found : i <= j].columns)

\* this.indices.find(i => i.full_name === this.selectedIndex)
\*     ?.columns.filter(c => c.type === 'text').map(c => c.name) || []
textColumns(list, selected) ==
    LET found == {i \in 1..Len(list) : list[i].full_name = selected}
    IN  IF found = {} THEN <<>>
        ELSE ColumnNames(SelectSeq(
                 list[CHOOSE i \in found : \A j \in found : i <= j].columns, IsText))

\* performSearch up to its first await
performSearch ==
    /\ page = "open"
    /\ script = "session"
    /\ IF sessionId = NoToken
       THEN /\ showAlert("Error: No se pudo iniciar la sesion. Intenta recargar la pagina.", "error")
            /\ UNCHANGED <<searching, lastSearchQuery, searches>>
       ELSE IF selectedIndex = <<>> \/ trim(searchQuery) = <<>>
       THEN /\ showAlert("Selecciona un indice y escribe una consulta", "error")
            /\ UNCHANGED <<searching, lastSearchQuery, searches>>
       ELSE /\ InFlight < MaxInFlight
            /\ searching' = TRUE
            /\ lastSearchQuery' = searchQuery
            /\ searches' = Send(searches,
                                [index_name |-> selectedIndex,
                                 query |-> searchQuery,
                                 size |-> searchSize,
                                 agg_fields |-> textColumns(indices, selectedIndex),
                                 session_id |-> sessionId])
            /\ UNCHANGED <<alert, timers>>
    /\ UNCHANGED <<script, storage, sessionId, selectedFile, indexName, indices,
                   selectedIndex, searchQuery, searchSize, searchResults,
                   searchMetrics, searchHistory, uploading, uploads, lists,
                   engine, clock, page>>

\* a plausible bug: the newest entry is dropped instead of the oldest
pushHistory_dropNewest(history, entry) ==
    LET pushed == Append(history, entry)
    IN  IF Len(pushed) > HistoryCap THEN SubSeq(pushed, 1, HistoryCap) ELSE pushed

\* this.searchHistory.push(entry); if (length > 10) this.searchHistory.shift()
pushHistory(history, entry) ==
    LET pushed == Append(history, entry)
    IN  IF Len(pushed) > HistoryCap THEN Tail(pushed) ELSE pushed

\* the search is executed and answered: performSearch after fetch, on the
\* response.ok path (done bounds the successful searches of a page)
performSearch_ok(request, done) ==
    /\ page = "open"
    /\ BagIn(request, searches)
    /\ executable(request)
    /\ clock < done
    /\ LET response == execute(request)
       IN  /\ searchResults' = response.results
           /\ searchMetrics' = response
           /\ searchHistory' = pushHistory(searchHistory,
                                  [query |-> searchQuery,
                                   time |-> response.search_time_seconds,
                                   results |-> response.total_results,
                                   timestamp |-> clock])
    /\ clock' = clock + 1
    /\ showAlert("Busqueda completada", "success")
    /\ searching' = FALSE
    /\ searches' = Settle(searches, request)
    /\ UNCHANGED <<script, storage, sessionId, selectedFile, indexName, indices,
                   selectedIndex, searchQuery, searchSize, lastSearchQuery,
                   uploading, uploads, lists, engine, page>>

\* a plausible bug: the catch of performSearch clears the results on display
performSearch_failed_clears(request, detail) ==
    /\ page = "open"
    /\ BagIn(request, searches)
    /\ showAlert(IF detail # "" THEN detail ELSE "Error realizando la busqueda", "error")
    /\ searchResults' = data.searchResults
    /\ searchMetrics' = data.searchMetrics
    /\ searching' = FALSE
    /\ searches' = Settle(searches, request)
    /\ UNCHANGED <<script, storage, sessionId, selectedFile, indexName, indices,
                   selectedIndex, searchQuery, searchSize, lastSearchQuery,
                   searchHistory, uploading, uploads, lists, engine, clock, page>>

\* a plausible bug: the catch of performSearch sends the request again
performSearch_failed_retry(request, detail) ==
    /\ page = "open"
    /\ BagIn(request, searches)
    /\ showAlert(IF detail # "" THEN detail ELSE "Error realizando la busqueda", "error")
    /\ searches' = Send(Settle(searches, request), request)
    /\ UNCHANGED <<script, storage, sessionId, selectedFile, indexName, indices,
                   selectedIndex, searchQuery, searchSize, searchResults,
                   searchMetrics, lastSearchQuery, searchHistory, uploading,
                   searching, uploads, lists, engine, clock, page>>

\* the search fails (fetch rejects, or the response is not ok, with or
\* without a detail): catch and finally of performSearch
performSearch_failed(request, detail) ==
    /\ page = "open"
    /\ BagIn(request, searches)
    /\ showAlert(IF detail # "" THEN detail ELSE "Error realizando la busqueda", "error")
    /\ searching' = FALSE
    /\ searches' = Settle(searches, request)
    /\ UNCHANGED <<script, storage, sessionId, selectedFile, indexName, indices,
                   selectedIndex, searchQuery, searchSize, searchResults,
                   searchMetrics, lastSearchQuery, searchHistory, uploading,
                   uploads, lists, engine, clock, page>>

\* an index is deleted in the search engine by someone else
deleteIndex(entry) ==
    /\ entry \in engine
    /\ engine' = engine \ {entry}
    /\ UNCHANGED <<script, storage, sessionId, selectedFile, indexName, indices,
                   selectedIndex, searchQuery, searchSize, searchResults,
                   searchMetrics, lastSearchQuery, searchHistory, uploading,
                   searching, alert, timers, uploads, lists, searches, clock,
                   page>>

(***************************************************************************)
(* The older client script, which knows no session: what differs from the  *)
(* session-aware script.  handleFileSelect, showAlert, the catch and       *)
(* finally blocks and the v-model fields are the same in both.  The        *)
(* backend cannot resolve a request without a session token, so no request *)
(* of this script succeeds, its list of indices stays empty and there is   *)
(* no entry to call selectIndex with.                                      *)
(***************************************************************************)
legacy_mounted ==
    /\ script = "legacy"
    /\ page' = "open"
    /\ selectedFile' = data.selectedFile
    /\ indexName' = data.indexName
    /\ indices' = data.indices
    /\ selectedIndex' = data.selectedIndex
    /\ searchQuery' = data.searchQuery
    /\ searchSize' = data.searchSize
    /\ searchResults' = data.searchResults
    /\ searchMetrics' = data.searchMetrics
    /\ lastSearchQuery' = data.lastSearchQuery
    /\ searchHistory' = data.searchHistory
    /\ uploading' = data.uploading
    /\ searching' = data.searching
    /\ alert' = data.alert
    /\ timers' = 0
    /\ clock' = 0
    /\ uploads' = EmptyBag
    /\ searches' = EmptyBag
    /\ lists' = Send(EmptyBag, [session_id |-> NoToken, caller |-> "mounted"])
    /\ UNCHANGED <<script, storage, sessionId, engine>>

legacy_uploadCSV ==
    /\ page = "open"
    /\ script = "legacy"
    /\ IF selectedFile = NoFile \/ indexName = <<>>
       THEN /\ showAlert("Selecciona un archivo y especifica un nombre de indice", "error")
            /\ UNCHANGED <<uploading, uploads>>
       ELSE /\ InFlight < MaxInFlight
            /\ uploading' = TRUE
            /\ uploads' = Send(uploads, [file |-> selectedFile,
                                         index_name |-> indexName,
                                         session_id |-> NoToken])
            /\ UNCHANGED <<alert, timers>>
    /\ UNCHANGED <<script, storage, sessionId, selectedFile, indexName, indices,
                   selectedIndex, searchQuery, searchSize, searchResults,
                   searchMetrics, lastSearchQuery, searchHistory, searching,
                   lists, searches, engine, clock, page>>

legacy_textColumns(list, selected) ==
    LET found == {i \in 1..Len(list) : list[i].name = selected}
    IN  IF found = {} THEN <<>>
        ELSE ColumnNames(SelectSeq(
                 list[CHOOSE i \in found : \A j \in found : i <= j].columns, IsText))

legacy_performSearch ==
    /\ page = "open"
    /\ script = "legacy"
    /\ IF selectedIndex = <<>> \/ trim(searchQuery) = <<>>
       THEN /\ showAlert("Selecciona un indice y escribe una consulta", "error")
            /\ UNCHANGED <<searching, lastSearchQuery, searches>>
       ELSE /\ InFlight < MaxInFlight
            /\ searching' = TRUE
            /\ lastSearchQuery' = searchQuery
            /\ searches' = Send(searches,
                                [index_name |-> selectedIndex,
                                 query |-> searchQuery,
                                 size |-> searchSize,
                                 agg_fields |-> legacy_textColumns(indices, selectedIndex),
                                 session_id |-> NoToken])
            /\ UNCHANGED <<alert, timers>>
    /\ UNCHANGED <<script, storage, sessionId, selectedFile, indexName, indices,
                   selectedIndex, searchQuery, searchSize, searchResults,
                   searchMetrics, searchHistory, uploading, uploads, lists,
                   engine, clock, page>>

(***************************************************************************)
(* Specifications.  Spec is the whole application.  Its state space is the *)
(* product of the session, upload and search parts, so the properties are  *)
(* checked on the parts: SpecSession runs page loads, file selection,      *)
(* uploads and listings from Init, with the files of SessionFiles.         *)
(***************************************************************************)
Next ==
    \/ mounted
    \/ legacy_mounted
    \/ clearStorage
    \/ alertTimeout
    \/ \E file \in Files \cup {NoFile} : handleFileSelect(file)
    \/ uploadCSV
    \/ legacy_uploadCSV
    \/ \E request \in BagToSet(uploads) : uploadCSV_ok(request)
    \/ \E request \in BagToSet(uploads), detail \in Details :
          uploadCSV_failed(request, detail)
    \/ \E request \in BagToSet(lists) :
          \E listing \in listings(request) : loadIndices_ok(request, listing)
    \/ \E request \in BagToSet(lists) : loadIndices_failed(request)
    \/ \E i \in 1..Len(indices) : selectIndex(indices[i])
    \/ \E text \in Queries : setSearchQuery(text)
    \/ \E size \in Sizes : setSearchSize(size)
    \/ performSearch
    \/ legacy_performSearch
    \/ \E request \in BagToSet(searches) : performSearch_ok(request, MaxDone)
    \/ \E request \in BagToSet(searches), detail \in Details :
          performSearch_failed(request, detail)
    \/ \E entry \in engine : deleteIndex(entry)

Spec == Init /\ [][Next]_vars

NextSession ==
    \/ mounted
    \/ legacy_mounted
    \/ clearStorage
    \/ alertTimeout
    \/ \E file \in SessionFiles \cup {NoFile} : handleFileSelect(file)
    \/ uploadCSV
    \/ legacy_uploadCSV
    \/ \E request \in BagToSet(uploads) : uploadCSV_ok(request)
    \/ \E request \in BagToSet(uploads), detail \in Details :
          uploadCSV_failed(request, detail)
    \/ \E request \in BagToSet(lists) :
          \E listing \in listings(request) : loadIndices_ok(request, listing)
    \/ \E request \in BagToSet(lists) : loadIndices_failed(request)
    \/ \E i \in 1..Len(indices) : selectIndex(indices[i])
    \/ legacy_performSearch

SpecSession == Init /\ [][NextSession]_vars

(***************************************************************************)
(* SpecSearch runs the search operations of the session-aware script on a  *)
(* page that has loaded its catalog.  Its initial states are states of     *)
(* Spec: the user uploaded "My File!.csv" and then "x.CSV" and the alerts  *)
(* have timed out; in the second one the first index was deleted in the    *)
(* engine before the second upload, so the listing no longer holds the     *)
(* index that is still selected.                                           *)
(***************************************************************************)
SearchToken == CHOOSE t \in generateUUID : t[1] = "a"

\* the engine's entry for file uploaded by the session of token
Uploaded(token, file) ==
    [id |-> resolve(token, deriveIndexName(file.name)),
     writers |-> {token},
     columns |-> file.columns]

\* the entry of the client's list for an entry of the engine
Listed(e) == [full_name |-> e.id, name |-> displayName(e.id), columns |-> e.columns]

InitSearch ==
    /\ script = "session"
    /\ page = "open"
    /\ storage = SearchToken
    /\ sessionId = SearchToken
    /\ selectedFile = NoFile
    /\ indexName = <<>>
    /\ selectedIndex = Uploaded(SearchToken, FirstFile).id
    /\ \/ /\ engine = {Uploaded(SearchToken, FirstFile), Uploaded(SearchToken, SecondFile)}
          /\ indices = <<Listed(Uploaded(SearchToken, FirstFile)),
                         Listed(Uploaded(SearchToken, SecondFile))>>
       \/ /\ engine = {Uploaded(SearchToken, SecondFile)}
          /\ indices = <<Listed(Uploaded(SearchToken, SecondFile))>>
    /\ searchQuery = data.searchQuery
    /\ searchSize = data.searchSize
    /\ searchResults = data.searchResults
    /\ searchMetrics = data.searchMetrics
    /\ lastSearchQuery = data.lastSearchQuery
    /\ searchHistory = data.searchHistory
    /\ uploading = FALSE
    /\ searching = FALSE
    /\ alert = [message |-> "", type |-> "success"]
    /\ timers = 0
    /\ uploads = EmptyBag
    /\ lists = EmptyBag
    /\ searches = EmptyBag
    /\ clock = 0

NextSearch ==
    \/ alertTimeout
    \/ \E i \in 1..Len(indices) : selectIndex(indices[i])
    \/ \E text \in Queries : setSearchQuery(text)
    \/ \E size \in Sizes : setSearchSize(size)
    \/ performSearch
    \/ \E request \in BagToSet(searches) : performSearch_ok(request, MaxDone)
    \/ \E request \in BagToSet(searches), detail \in Details :
          performSearch_failed(request, detail)

SpecSearch == InitSearch /\ [][NextSearch]_vars

\* every initial state of SpecSearch is a state of Spec: TLC finds this
\* invariant of Spec violated, once for each disjunct of InitSearch
SearchStartUnreached == ~InitSearch

(***************************************************************************)
(* SpecHistory runs searches only, from the first initial state of         *)
(* SpecSearch, for as many successful searches as it takes to fill and     *)
(* overflow searchHistory.                                                 *)
(***************************************************************************)
InitHistory ==
    /\ InitSearch
    /\ Len(indices) = 2

NextHistory ==
    \/ alertTimeout
    \/ \E text \in QueriesHistory : setSearchQuery(text)
    \/ performSearch
    \/ \E request \in BagToSet(searches) : performSearch_ok(request, MaxDoneHistory)
    \/ \E request \in BagToSet(searches) : performSearch_failed(request, "")

SpecHistory == InitHistory /\ [][NextHistory]_vars

(***************************************************************************)
(* SpecNames applies the client's handling of a listing (loadIndices after *)
(* axios.get) to listings with identifiers of every shape: those of the    *)
(* sessions' own indices, and identifiers that miss the temp-<UUID>- shape *)
(* in one place.                                                           *)
(***************************************************************************)
NormalizedNames == {deriveIndexName(f.name) : f \in Files} \ {<<>>}

ProbeUUID == CHOOSE t \in generateUUID : t[1] = "a"

\* identifiers that do not begin with temp-<UUID>-
Misshapen ==
    { <<"p", "r", "o", "d">>,
      \* no hyphen after the token
      tempPrefix \o ProbeUUID \o <<"x">>,
      \* nothing after the token
      tempPrefix \o ProbeUUID,
      \* a character that is no hexadecimal digit
      tempPrefix \o [ProbeUUID EXCEPT ![3] = "g"] \o <<"-", "x">>,
      \* a group that is one digit short
      tempPrefix \o Tail(ProbeUUID) \o <<"-", "x">>,
      \* the prefix in upper case
      <<"T", "E", "M", "P", "-">> \o ProbeUUID \o <<"-", "x">>,
      \* the shape not at the start
      <<"x">> \o tempPrefix \o ProbeUUID \o <<"-", "x">> }

ProbeIdentifiers ==
    {resolve(t, n) : t \in generateUUID, n \in NormalizedNames}
    \cup {tempPrefix \o [ProbeUUID EXCEPT ![1] = "A"] \o <<"-", "x">>}
    \cup Misshapen

ProbeEntries == {[name |-> id, columns |-> <<>>] : id \in ProbeIdentifiers}

\* the listings of at most two entries
ProbeListings ==
    {<<>>} \cup {<<e>> : e \in ProbeEntries}
    \cup {p \in {<<d, e>> : d \in ProbeEntries, e \in ProbeEntries} : p[1] # p[2]}

InitNames == Init /\ script = "session"

NextNames ==
    \/ mounted
    \/ \E request \in BagToSet(lists), listing \in ProbeListings :
          loadIndices_ok(request, listing)

SpecNames == InitNames /\ [][NextNames]_vars

(***************************************************************************)
(* SpecOperations runs uploads, listings and searches together on one page *)
(* of either script, from Init, with one file and one query.               *)
(***************************************************************************)
NextOperations ==
    \/ mounted
    \/ legacy_mounted
    \/ alertTimeout
    \/ handleFileSelect(FirstFile)
    \/ uploadCSV
    \/ legacy_uploadCSV
    \/ \E request \in BagToSet(uploads) : uploadCSV_ok(request)
    \/ \E request \in BagToSet(uploads), detail \in Details :
          uploadCSV_failed(request, detail)
    \/ \E request \in BagToSet(lists) :
          \E listing \in listings(request) : loadIndices_ok(request, listing)
    \/ \E request \in BagToSet(lists) : loadIndices_failed(request)
    \/ \E text \in QueriesHistory : setSearchQuery(text)
    \/ performSearch
    \/ legacy_performSearch
    \/ \E request \in BagToSet(searches) : performSearch_ok(request, MaxDone)
    \/ \E request \in BagToSet(searches), detail \in Details :
          performSearch_failed(request, detail)

SpecOperations == Init /\ [][NextOperations]_vars

(***************************************************************************)
(* SpecOverlap runs searches with two different queries from the first     *)
(* initial state of SpecSearch, so that the query box can hold another     *)
(* query than a request in flight.                                         *)
(***************************************************************************)
OverlapQueries == {<<"a">>, <<"b">>}

NextOverlap ==
    \/ alertTimeout
    \/ \E text \in OverlapQueries : setSearchQuery(text)
    \/ performSearch
    \/ \E request \in BagToSet(searches) : performSearch_ok(request, MaxDone)
    \/ \E request \in BagToSet(searches) : performSearch_failed(request, "")

SpecOverlap == InitHistory /\ [][NextOverlap]_vars

(***************************************************************************)
(* SpecSettling is SpecOperations on the session-aware script under the    *)
(* condition that requests settle: a request in flight is eventually       *)
(* answered or fails (strong fairness, because the continuation that       *)
(* handles it shows an alert and the model admits MaxTimers alerts at a    *)
(* time), and a timer started by showAlert eventually expires.             *)
(***************************************************************************)
SettleUpload ==
    \E request \in BagToSet(uploads) :
        \/ uploadCSV_ok(request)
        \/ uploadCSV_failed(request, "")

SettleList ==
    \E request \in BagToSet(lists) :
        \/ \E listing \in listings(request) : loadIndices_ok(request, listing)
        \/ loadIndices_failed(request)

SettleSearch ==
    \E request \in BagToSet(searches) :
        \/ performSearch_ok(request, MaxDone)
        \/ performSearch_failed(request, "")

NextSettling ==
    \/ mounted
    \/ alertTimeout
    \/ handleFileSelect(FirstFile)
    \/ uploadCSV
    \/ SettleUpload
    \/ SettleList
    \/ setSearchQuery(<<"a">>)
    \/ performSearch
    \/ SettleSearch

SpecSettling ==
    /\ InitNames
    /\ [][NextSettling]_vars
    /\ WF_vars(alertTimeout)
    /\ SF_vars(SettleUpload)
    /\ SF_vars(SettleList)
    /\ SF_vars(SettleSearch)

(***************************************************************************)
(* SpecSelection runs the uploads of two files, the listings, the          *)
(* selection of an index and the sending of searches on one page of either *)
(* script, from Init.                                                      *)
(***************************************************************************)
NextSelection ==
    \/ mounted
    \/ legacy_mounted
    \/ alertTimeout
    \/ \E file \in {FirstFile, SecondFile} : handleFileSelect(file)
    \/ uploadCSV
    \/ legacy_uploadCSV
    \/ \E request \in BagToSet(uploads) : uploadCSV_ok(request)
    \/ \E request \in BagToSet(uploads) : uploadCSV_failed(request, "")
    \/ \E request \in BagToSet(lists) :
          \E listing \in listings(request) : loadIndices_ok(request, listing)
    \/ \E request \in BagToSet(lists) : loadIndices_failed(request)
    \/ \E i \in 1..Len(indices) : selectIndex(indices[i])
    \/ setSearchQuery(<<"a">>)
    \/ performSearch
    \/ legacy_performSearch
    \/ \E request \in BagToSet(searches) : performSearch_failed(request, "")

SpecSelection == Init /\ [][NextSelection]_vars

(***************************************************************************)
(* Properties.                                                             *)
(***************************************************************************)
Min(a, b) == IF a < b THEN a ELSE b

\* every request in flight
Requests == BagToSet(uploads) \cup BagToSet(lists) \cup BagToSet(searches)

\* the requests sent by the step: those with more copies in flight after it
Sent(bag, bagAfter) ==
    {r \in BagToSet(bagAfter) : CopiesIn(r, bagAfter) > CopiesIn(r, bag)}

\* C1: after any interleaving of rejected, failed and successful searches,
\* searchHistory holds at most 10 entries and they are the entries of the last
\* min(n, 10) of the n searches completed so far, in the order of completion
\* (the k-th completed search carries timestamp k - 1): the oldest is the one
\* evicted.
C1_HistoryKeepsMostRecent ==
    /\ Len(searchHistory) <= 10
    /\ Len(searchHistory) = Min(clock, 10)
    /\ \A i \in 1..Len(searchHistory) :
          searchHistory[i].timestamp = clock - Len(searchHistory) + i - 1

\* an eleventh search has completed after rejected and failed ones: the
\* history holds ten entries and the first search is gone
C1_Witness ==
    /\ clock = 11
    /\ Len(searchHistory) = 10
    /\ searchHistory[1].timestamp = 1
    /\ \E i \in 1..10 : searchHistory[i].query = <<>>
    /\ alert.type = "error"

\* C2: across page loads that share the session storage, a token is
\* generated only when none is stored, a stored token is never replaced by
\* another one (it can only be cleared), and every load leaves sessionId equal
\* to the stored token.
C2_TokenCreatedOnce ==
    [][ /\ (storage # NoToken /\ storage' # storage) => storage' = NoToken
        /\ (mounted /\ storage # NoToken) => sessionId' = storage
        /\ (mounted /\ storage = NoToken) =>
               (storage' \in generateUUID /\ sessionId' = storage') ]_vars

\* the page has been loaded again in a session that had already uploaded:
\* the new page holds the token of the upload, its only request is the
\* listing of mounted and it has not listed or alerted anything yet
C2_Witness ==
    /\ page = "open"
    /\ sessionId # NoToken
    /\ sessionId = storage
    /\ \E e \in engine : sessionId \in e.writers
    /\ indices = <<>>
    /\ alert = data.alert
    /\ timers = 0
    /\ selectedFile = NoFile
    /\ uploads = EmptyBag
    /\ lists = SetToBag({[session_id |-> sessionId, caller |-> "mounted"]})

\* C3: every request in flight carries the token held in sessionId, and no
\* request is in flight while sessionId is unset.
C3_RequestsCarrySession ==
    \A r \in Requests : r.session_id = sessionId /\ sessionId # NoToken

\* C3 for the pages that run the session-aware script
C3_SessionScriptCarriesSession ==
    script = "session" => C3_RequestsCarrySession

\* C4: for every token A the client can hold, the listing for A holds no index
\* that a session other than A wrote to; so neither does the list a page shows.
C4_ListingIsolated ==
    /\ \A A \in generateUUID : \A c \in catalog(A) : \A e \in engine :
          e.id = c.name => e.writers \subseteq {A}
    /\ \A i \in 1..Len(indices) : \A e \in engine :
          e.id = indices[i].full_name => e.writers \subseteq {sessionId}

\* the page shows its listing while the engine holds an index of another
\* session
C4_Witness ==
    /\ Len(indices) > 0
    /\ \E e \in engine : sessionId \notin e.writers

\* C5: uploads of two sessions never write to the same index: no index of the
\* engine has been written by two sessions, whatever the names uploaded.
C5_NoSharedIndex ==
    \A e \in engine : Cardinality(e.writers) <= 1

\* two sessions have uploaded under the same name
C5_Witness ==
    \E d \in engine, e \in engine :
        /\ d.writers # e.writers
        /\ displayName(d.id) = displayName(e.id)

\* C6: the index name derived from a file name has only characters of
\* [a-z0-9_-]; uploadCSV with an empty index name shows an error alert and
\* sends nothing; so every upload request has a non-empty index_name of
\* characters of [a-z0-9_-].
C6_IndexNameRestricted ==
    /\ [](/\ \A i \in 1..Len(indexName) : indexName[i] \in NameChars
          /\ \A r \in BagToSet(uploads) :
                /\ r.index_name # <<>>
                /\ \A i \in 1..Len(r.index_name) : r.index_name[i] \in NameChars)
    /\ [][((uploadCSV \/ legacy_uploadCSV) /\ selectedFile # NoFile /\ indexName = <<>>)
            => (/\ uploads' = uploads
                /\ alert'.type = "error"
                /\ alert'.message # "")]_vars

\* with an upload of "My File!.csv" in flight, uploadCSV was called for the
\* file ".csv", whose derived name is empty
C6_Witness ==
    /\ selectedFile # NoFile
    /\ indexName = <<>>
    /\ alert = [message |-> "Selecciona un archivo y especifica un nombre de indice",
                type |-> "error"]
    /\ \E r \in BagToSet(uploads) :
          r.index_name = <<"m", "y", "_", "f", "i", "l", "e", "_">>

\* a string that begins with temp-, a token of the UUID shape (8-4-4-4-12
\* hexadecimal digits) and a hyphen
UUIDShaped(u) ==
    /\ Len(u) = 36
    /\ \A i \in 1..36 : IF i \in {9, 14, 19, 24} THEN u[i] = "-" ELSE u[i] \in HexChars

WellShaped(identifier) ==
    /\ Len(identifier) >= 42
    /\ SubSeq(identifier, 1, 5) = <<"t", "e", "m", "p", "-">>
    /\ UUIDShaped(SubSeq(identifier, 6, 41))
    /\ identifier[42] = "-"

\* C7: for the token the page holds (and any token a client can hold) the name
\* shown for an identifier temp-<token>-<n> is n: the identifier is the prefix
\* followed by exactly the name shown; an identifier that is not of the
\* temp-<UUID>- shape is shown unchanged.
C7_DisplayNameRoundTrip ==
    \A i \in 1..Len(indices) :
        /\ \A t \in generateUUID \cup {sessionId} :
              hasPrefix(indices[i].full_name, tempPrefix \o t \o <<"-">>)
                 => indices[i].full_name = tempPrefix \o t \o <<"-">> \o indices[i].name
        /\ ~WellShaped(indices[i].full_name) => indices[i].name = indices[i].full_name

\* the list shows an index of the page's session under its normalized name,
\* and an identifier of another shape
C7_Witness ==
    /\ Len(indices) = 2
    /\ indices[1].full_name = resolve(sessionId, <<"m", "y", "_", "f", "i", "l", "e", "_">>)
    /\ indices[1].name = <<"m", "y", "_", "f", "i", "l", "e", "_">>
    /\ indices[2].full_name \in Misshapen
    /\ Len(indices[2].full_name) > 42

\* a text of spaces only (the empty text included)
IsBlank(text) == \A i \in 1..Len(text) : text[i] = " "

\* C8: performSearch with an empty or whitespace-only query shows an error
\* alert, sends no request and leaves searchResults, searchMetrics,
\* searchHistory, lastSearchQuery and searching as they were.
C8_BlankQueryRejected ==
    [][(performSearch /\ IsBlank(searchQuery))
        => (/\ alert'.type = "error"
            /\ alert'.message # ""
            /\ searches' = searches
            /\ UNCHANGED <<searchResults, searchMetrics, searchHistory,
                           lastSearchQuery, searching>>)]_vars

\* after a successful search, performSearch was called with an index selected
\* and a query of spaces
C8_Witness ==
    /\ alert = [message |-> "Selecciona un indice y escribe una consulta", type |-> "error"]
    /\ selectedIndex # <<>>
    /\ searchQuery = <<" ">>
    /\ lastSearchQuery = <<"a">>
    /\ Len(searchHistory) = 1
    /\ searches = EmptyBag

\* the names of the text columns, in order
RECURSIVE TextNames(_)
TextNames(columns) ==
    IF columns = <<>> THEN <<>>
    ELSE IF Head(columns).type = "text"
         THEN <<Head(columns).name>> \o TextNames(Tail(columns))
         ELSE TextNames(Tail(columns))

\* C9: the agg_fields of every search request sent are the names of the text
\* columns of the selected index, in the order of the loaded catalog, and are
\* empty when the catalog does not hold the selected index.
C9_AggFieldsAreTextColumns ==
    [][\A r \in Sent(searches, searches') :
          /\ r.index_name = selectedIndex
          /\ \A i \in 1..Len(indices) :
                indices[i].full_name = selectedIndex
                   => r.agg_fields = TextNames(indices[i].columns)
          /\ (\A i \in 1..Len(indices) : indices[i].full_name # selectedIndex)
                   => r.agg_fields = <<>>]_vars

\* two searches are in flight, one on the index with text and numeric columns
\* and one on the index with none
C9_Witness ==
    \E q \in BagToSet(searches), r \in BagToSet(searches) :
        /\ q.index_name = resolve(sessionId, deriveIndexName(FirstFile.name))
        /\ q.agg_fields = <<"city", "title">>
        /\ r.index_name = resolve(sessionId, deriveIndexName(SecondFile.name))
        /\ r.agg_fields = <<>>
        /\ Len(indices) = 2

\* a search was sent for the selected index that the catalog does not hold
C9_AbsentIndexSearched ==
    \E r \in BagToSet(searches) :
        /\ r.index_name = selectedIndex
        /\ \A i \in 1..Len(indices) : indices[i].full_name # selectedIndex
        /\ r.agg_fields = <<>>

\* C10: the size of every executed search is at most the configured maximum
\* (a larger request is executed with the maximum, not rejected), and the
\* size is 10 until the user changes it.
C10_SizeCapped ==
    /\ searchSize = 10
    /\ [](/\ searchMetrics.total_results.size <= 100
          /\ \A i \in 1..Len(searchHistory) : searchHistory[i].results.size <= 100)

\* a search asking for 10000 results was executed with 100
C10_Witness ==
    /\ searchSize = 10000
    /\ searchMetrics.total_results.size = 100
    /\ Len(searchHistory) = 1
    /\ searchHistory[1].results.size = 100
    /\ alert = [message |-> "Busqueda completada", type |-> "success"]

\* an error alert is on display
ErrorShown == alert.type = "error" /\ alert.message # ""

\* the step is a page load
PageLoad == mounted \/ legacy_mounted

\* C11: an invocation of uploadCSV sends at most one upload request and
\* nothing else, an invocation of performSearch at most one search request
\* and nothing else, and no other step sends an upload or a search request;
\* the step that handles a failed request shows an error alert and leaves one
\* request fewer in flight: the request is not sent again.
C11_NoAutomaticRetry ==
    [][/\ (uploadCSV \/ legacy_uploadCSV)
            => /\ BagCardinality(uploads') <= BagCardinality(uploads) + 1
               /\ searches' = searches
       /\ (performSearch \/ legacy_performSearch)
            => /\ BagCardinality(searches') <= BagCardinality(searches) + 1
               /\ uploads' = uploads
       /\ ~(uploadCSV \/ legacy_uploadCSV)
            => BagCardinality(uploads') <= BagCardinality(uploads)
       /\ ~(performSearch \/ legacy_performSearch)
            => BagCardinality(searches') <= BagCardinality(searches)
       /\ (\E r \in BagToSet(uploads), d \in Details : uploadCSV_failed(r, d))
            => /\ BagCardinality(uploads') = BagCardinality(uploads) - 1
               /\ searches' = searches
               /\ ErrorShown'
       /\ (\E r \in BagToSet(searches), d \in Details : performSearch_failed(r, d))
            => /\ BagCardinality(searches') = BagCardinality(searches) - 1
               /\ uploads' = uploads
               /\ ErrorShown'
      ]_vars

\* a search has failed after an upload succeeded: the error is shown and
\* nothing is in flight
C11_Witness ==
    /\ alert = [message |-> "Error realizando la busqueda", type |-> "error"]
    /\ lastSearchQuery = <<"a">>
    /\ searchHistory = <<>>
    /\ Len(indices) = 1
    /\ ~searching
    /\ InFlight = 0

ZeroUploads(token) == \A e \in engine : token \notin e.writers

\* C13: the listing for a session that has uploaded nothing is the empty
\* listing, not an error, and loadIndices then leaves indices empty,
\* selectedIndex empty and the alert as it was.
C13_EmptyListingIsNoError ==
    /\ [](\A r \in BagToSet(lists) :
             (r.session_id # NoToken /\ ZeroUploads(r.session_id))
                => listings(r) = {<<>>})
    /\ [][\A r \in BagToSet(lists) :
             (/\ r.session_id # NoToken
              /\ ZeroUploads(r.session_id)
              /\ \E listing \in listings(r) : loadIndices_ok(r, listing))
                => /\ indices' = <<>>
                   /\ selectedIndex' = <<>>
                   /\ alert' = alert
                   /\ timers' = timers]_vars

\* a page whose session has uploaded nothing has received its listing while
\* the engine holds an index of another session
C13_Witness ==
    /\ page = "open"
    /\ script = "session"
    /\ lists = EmptyBag
    /\ uploads = EmptyBag
    /\ ZeroUploads(sessionId)
    /\ engine # {}
    /\ indices = <<>>
    /\ selectedIndex = <<>>
    /\ alert = data.alert
    /\ timers = 0

\* C14: uploading is true whenever an upload request is in flight, and
\* searching is true whenever a search request is in flight.
C14_FlagsCoverRequests ==
    /\ uploads # EmptyBag => uploading
    /\ searches # EmptyBag => searching

\* C15: when no search is in flight and a search has succeeded on the page,
\* searchResults and searchMetrics are the response to a request whose query
\* was lastSearchQuery.
C15_ResultsMatchLastQuery ==
    (searches = EmptyBag /\ clock > 0)
        => /\ searchMetrics.total_results.query = lastSearchQuery
           /\ searchResults = searchMetrics.results
           /\ \A i \in 1..Len(searchResults) : searchResults[i].query = lastSearchQuery

\* C16: the query of every searchHistory entry is the query of the request
\* whose response supplied its time and results.
C16_HistoryEntryConsistent ==
    \A i \in 1..Len(searchHistory) :
        /\ searchHistory[i].query = searchHistory[i].results.query
        /\ searchHistory[i].query = searchHistory[i].time.query

\* C17: the timer of an earlier alert never clears the message of a later
\* alert.  All timers run for the same 5 seconds, so they expire in the order
\* in which they were started, and each showAlert starts one: the timer that
\* expires while a message is on display belongs to that message only if it
\* is the one timer pending.
C17_TimerClearsOwnAlert ==
    [][(alertTimeout /\ alert.message # "") => timers = 1]_vars

\* C18: provided every request settles, a call of uploadCSV that set
\* uploading is followed by a state in which uploading is false, and a call
\* of performSearch that set searching by a state in which searching is
\* false, whether the request succeeds or fails.
C18_FlagsEventuallyReset ==
    /\ uploading ~> ~uploading
    /\ searching ~> ~searching

\* an upload has failed and a search has succeeded before it: both flags
\* are false again and nothing is in flight
C18_Witness ==
    /\ alert = [message |-> "Error cargando el archivo CSV", type |-> "error"]
    /\ clock = 1
    /\ ~uploading
    /\ ~searching
    /\ InFlight = 0

\* C19: a performSearch call whose request fails changes alert,
\* lastSearchQuery and searching only: neither the step that sends the
\* request nor the step that handles the failure (a search request leaves
\* flight and no search is completed) changes searchResults, searchMetrics,
\* searchHistory or any other field, and the failure leaves an error alert
\* and searching false.
C19_FailedSearchFrame ==
    [][/\ (\/ performSearch
           \/ (/\ BagCardinality(searches') < BagCardinality(searches)
               /\ clock' = clock))
            => UNCHANGED <<searchResults, searchMetrics, searchHistory, indices,
                           selectedIndex, searchQuery, searchSize, sessionId,
                           selectedFile, indexName, uploading>>
       /\ (/\ BagCardinality(searches') < BagCardinality(searches)
           /\ clock' = clock)
            => (ErrorShown' /\ ~searching' /\ lastSearchQuery' = lastSearchQuery)
      ]_vars

\* a search has failed on a page that shows the results of an earlier one
C19_Witness ==
    /\ alert = [message |-> "detail", type |-> "error"]
    /\ searchMetrics # NoMetrics
    /\ searchResults # <<>>
    /\ Len(searchHistory) = 1
    /\ searches = EmptyBag
    /\ ~searching

\* C20: selectedIndex is empty or the full identifier (with the session
\* prefix) of an index of the page's session, never a display name; a listing
\* sets it only when it is empty, to an identifier of the listing, and leaves
\* an existing selection alone; so every search request names a full
\* identifier of the page's session.
C20_SelectionIsFullName ==
    /\ [](/\ selectedIndex # <<>>
             => /\ WellShaped(selectedIndex)
                /\ \E e \in engine : e.id = selectedIndex /\ sessionId \in e.writers
                /\ \A i \in 1..Len(indices) : indices[i].name # selectedIndex
          /\ \A r \in BagToSet(searches) :
                /\ WellShaped(r.index_name)
                /\ hasPrefix(r.index_name, tempPrefix \o sessionId \o <<"-">>))
    /\ [][\A r \in BagToSet(lists) : \A listing \in listings(r) :
             loadIndices_ok(r, listing)
                => IF selectedIndex # <<>>
                   THEN selectedIndex' = selectedIndex
                   ELSE \/ listing = <<>> /\ selectedIndex' = <<>>
                        \/ listing # <<>> /\ selectedIndex' = listing[1].name]_vars

\* the second index of the list shown is the selected one (the listings
\* received did not move the selection to their first entry) and a search on
\* it is in flight
C20_Witness ==
    /\ Len(indices) = 2
    /\ selectedIndex = indices[2].full_name
    /\ indices[2].name # indices[2].full_name
    /\ lists = EmptyBag
    /\ uploads = EmptyBag
    /\ ~uploading
    /\ \E r \in BagToSet(searches) : r.index_name = indices[2].full_name

=============================================================================
